---- MODULE Spec2Model ----
(***************************************************************************)
(* A model of the users CRUD server of src/src/main.rs: the accept loop of *)
(* main, handle_client with its router, the five handlers, the request     *)
(* text helpers get_id and get_user_request_body, and the users table the  *)
(* statements act on.                                                      *)
(*                                                                         *)
(* Request text is a sequence of tokens.  A token stands for a run of      *)
(* characters; the alphabet is chosen so that prefix tests and splits on   *)
(* tokens agree with the same tests on characters.  A JSON object is one   *)
(* token carrying its fields.                                              *)
(***************************************************************************)
EXTENDS Integers, Sequences, FiniteSets, TLC

(***************************************************************************)
(* Bounds of the model.                                                    *)
(***************************************************************************)
\* Create requests are read only while the store's id sequence is <= MaxId.
MaxId == 2

(***************************************************************************)
(* JSON values and the tokens of request and response text.                *)
(***************************************************************************)
Absent == [t |-> "absent", s |-> "", n |-> 0]
JNull == [t |-> "null", s |-> "", n |-> 0]
JStr(s) == [t |-> "str", s |-> s, n |-> 0]
JNum(n) == [t |-> "num", s |-> "", n |-> n]

NoObj == [id |-> Absent, name |-> Absent, email |-> Absent]

\* a run of plain characters
T(c) == [c |-> c, o |-> NoObj]
\* a JSON object with the fields id, name, email (each possibly absent)
J(o) == [c |-> "json", o |-> o]

SP == T(" ")
SLASH == T("/")
\* "\r\n"
CRLF == T("CRLF")
\* the blank-line separator "\r\n\r\n"
SEP == <<CRLF, CRLF>>

IsWhitespace(tok) == tok \in {SP, CRLF}

\* struct User { id: Option<i32>, name: String, email: String }; id 0 with
\* hasId FALSE is None
User(hasId, id, name, email) == [hasId |-> hasId, id |-> id, name |-> name, email |-> email]

I32Max == 2147483647
I32Min == 0 - I32Max - 1

(***************************************************************************)
(* str::starts_with and str::split on token sequences.                     *)
(***************************************************************************)
StartsWith(r, p) == Len(r) >= Len(p) /\ SubSeq(r, 1, Len(p)) = p

\* the pieces of s between the non-overlapping occurrences of sep, found
\* left to right; cur is the piece being collected
RECURSIVE SplitFrom(_, _, _)
SplitFrom(s, sep, cur) ==
    IF s = <<>> THEN <<cur>>
    ELSE IF StartsWith(s, sep)
         THEN <<cur>> \o SplitFrom(SubSeq(s, Len(sep) + 1, Len(s)), sep, <<>>)
         ELSE SplitFrom(Tail(s), sep, Append(cur, Head(s)))

Split(s, sep) == SplitFrom(s, sep, <<>>)

\* split_whitespace().next().unwrap_or_default(): the first maximal run of
\* non-whitespace tokens, empty when there is none
RECURSIVE SkipWhitespace(_)
SkipWhitespace(s) ==
    IF s # <<>> /\ IsWhitespace(Head(s)) THEN SkipWhitespace(Tail(s)) ELSE s

RECURSIVE TakeWord(_)
TakeWord(s) ==
    IF s = <<>> \/ IsWhitespace(Head(s)) THEN <<>>
    ELSE <<Head(s)>> \o TakeWord(Tail(s))

FirstWord(s) == TakeWord(SkipWhitespace(s))

(***************************************************************************)
(* get_id: the third "/"-separated piece of the whole request text, cut to *)
(* its first whitespace-delimited word.                                    *)
(***************************************************************************)
get_id(request) ==
    LET pieces == Split(request, <<SLASH>>)
    IN  IF Len(pieces) >= 3 THEN FirstWord(pieces[3]) ELSE <<>>

(***************************************************************************)
(* str::parse::<i32>: an optional sign, then one or more decimal digits,   *)
(* the value within the i32 range.                                         *)
(***************************************************************************)
Digits == {"0", "1", "2", "3", "4", "5", "6", "7", "8", "9"}

DigitVal(c) ==
    CASE c = "0" -> 0 [] c = "1" -> 1 [] c = "2" -> 2 [] c = "3" -> 3
      [] c = "4" -> 4 [] c = "5" -> 5 [] c = "6" -> 6 [] c = "7" -> 7
      [] c = "8" -> 8 [] c = "9" -> 9

IsDigit(tok) == tok.c \in Digits /\ tok.o = NoObj

ParseErr == [ok |-> FALSE, v |-> 0]

\* the digit loop of from_str_radix: checked_mul by 10, then checked_add of
\* the digit (checked_sub after a "-"); an overflow is an error
RECURSIVE Accumulate(_, _, _)
Accumulate(s, acc, neg) ==
    IF s = <<>> THEN [ok |-> TRUE, v |-> acc]
    ELSE LET d == DigitVal(Head(s).c)
         IN  IF acc > I32Max \div 10 \/ acc < 0 - (I32Max \div 10) THEN ParseErr
             ELSE IF ~neg /\ 10 * acc > I32Max - d THEN ParseErr
             ELSE IF neg /\ 10 * acc < I32Min + d THEN ParseErr
             ELSE Accumulate(Tail(s), IF neg THEN 10 * acc - d ELSE 10 * acc + d, neg)

parse_i32(s) ==
    LET signed == s # <<>> /\ Head(s) \in {T("+"), T("-")}
        digits == IF signed THEN Tail(s) ELSE s
    IN  IF digits = <<>> \/ \E i \in 1..Len(digits) : ~IsDigit(digits[i])
        THEN ParseErr
        ELSE Accumulate(digits, 0, signed /\ Head(s) = T("-"))

(***************************************************************************)
(* get_user_request_body: serde_json::from_str::<User> applied to the LAST *)
(* piece of request.split("\r\n\r\n").                                     *)
(***************************************************************************)
RECURSIVE TrimEnd(_)
TrimEnd(s) ==
    IF s # <<>> /\ IsWhitespace(s[Len(s)]) THEN TrimEnd(SubSeq(s, 1, Len(s) - 1)) ELSE s

DecodeErr == [ok |-> FALSE, user |-> User(FALSE, 0, "", "")]

\* a variant of from_str: a missing email is read as the empty text
from_str_EmailDefaults(text) ==
    LET body == TrimEnd(SkipWhitespace(text))
        o == body[1].o
    IN  IF Len(body) # 1 \/ body[1].c # "json" THEN DecodeErr
        ELSE IF o.name.t # "str" \/ o.email.t \notin {"str", "absent"} THEN DecodeErr
        ELSE [ok |-> TRUE,
              user |-> User(o.id.t = "num", o.id.n, o.name.s, o.email.s)]

\* serde_json skips whitespace around the value; name and email must be
\* JSON strings; id may be missing, null or a number in the i32 range;
\* anything else, and any text that is not one JSON object, is an error
from_str(text) ==
    LET body == TrimEnd(SkipWhitespace(text))
        o == body[1].o
    IN  IF Len(body) # 1 \/ body[1].c # "json" THEN DecodeErr
        ELSE IF o.name.t # "str" \/ o.email.t # "str" THEN DecodeErr
        ELSE IF o.id.t \notin {"absent", "null", "num"} THEN DecodeErr
        ELSE IF o.id.t = "num" /\ (o.id.n < I32Min \/ o.id.n > I32Max) THEN DecodeErr
        ELSE [ok |-> TRUE,
              user |-> User(o.id.t = "num", o.id.n, o.name.s, o.email.s)]

LastPiece(request) ==
    LET pieces == Split(request, SEP) IN pieces[Len(pieces)]

get_user_request_body(request) == from_str(LastPiece(request))

\* serde_json::to_string(&user): Option<i32> None is written as null
to_string(user) ==
    J([id |-> IF user.hasId THEN JNum(user.id) ELSE JNull,
       name |-> JStr(user.name), email |-> JStr(user.email)])

(***************************************************************************)
(* The response constants and the (status line, content) pair a handler    *)
(* returns.  A handler whose statement fails panics on .unwrap() and       *)
(* returns nothing.                                                        *)
(***************************************************************************)
OK_RESPONSE == "HTTP/1.1 200 OK"
NOT_FOUND == "HTTP/1.1 404 NOT FOUND"
INTERNAL_ERROR == "HTTP/1.1 500 INTERNAL ERROR"

NoResponse == [status |-> "none", content |-> <<>>]

\* what a handler call comes to: it returned (status, content) or panicked,
\* and the table and the id sequence it leaves behind
Returned(status, content, tbl, nv) ==
    [panic |-> FALSE, response |-> [status |-> status, content |-> content],
     table |-> tbl, nextval |-> nv]

Panicked(tbl, nv) ==
    [panic |-> TRUE, response |-> NoResponse, table |-> tbl, nextval |-> nv]

InternalError(tbl, nv) == Returned(INTERNAL_ERROR, <<T("Internal error")>>, tbl, nv)

(***************************************************************************)
(* The users table: id SERIAL PRIMARY KEY, name, email.  tbl maps the ids  *)
(* of the rows present to their name and email; nv is the next value of    *)
(* the id sequence.  The statements of the five handlers:                  *)
(***************************************************************************)
\* a variant of InsertRow: the two parameters bound in the other order
InsertRow_SwapsColumns(tbl, nv, name, email) ==
    [i \in DOMAIN tbl \cup {nv} |->
        IF i = nv THEN [name |-> email, email |-> name] ELSE tbl[i]]

\* INSERT INTO users (name, email) VALUES ($1, $2): the id is the sequence's
InsertRow(tbl, nv, name, email) ==
    [i \in DOMAIN tbl \cup {nv} |->
        IF i = nv THEN [name |-> name, email |-> email] ELSE tbl[i]]

\* a variant of UpdateRow: the WHERE clause is missing
UpdateRow_NoWhere(tbl, id, name, email) ==
    [i \in DOMAIN tbl |-> [name |-> name, email |-> email]]

\* a variant of UpdateRow: SET name = $1, email = name
UpdateRow_EmailFromOldName(tbl, id, name, email) ==
    [i \in DOMAIN tbl |->
        IF i = id THEN [name |-> name, email |-> tbl[i].name] ELSE tbl[i]]

\* UPDATE users SET name = $1, email = $2 WHERE id = $3
UpdateRow(tbl, id, name, email) ==
    [i \in DOMAIN tbl |->
        IF i = id THEN [name |-> name, email |-> email] ELSE tbl[i]]

\* a variant of DeleteRow: the row is only marked, and stays
DeleteRow_KeepsRow(tbl, id) == tbl

\* DELETE FROM users WHERE id = $1
DeleteRow(tbl, id) == [i \in DOMAIN tbl \ {id} |-> tbl[i]]

\* a variant of RowsAffected: the count is not looked at
RowsAffected_AlwaysOne(tbl, id) == 1

\* the rows DELETE FROM users WHERE id = $1 affects
RowsAffected(tbl, id) == IF id \in DOMAIN tbl THEN 1 ELSE 0

\* the User built from the columns of row id
RowUser(tbl, id) == User(TRUE, id, tbl[id].name, tbl[id].email)

(***************************************************************************)
(* The handlers.  env is what the store does for this request: "up" (the   *)
(* connection is made and the statement runs), "down" (Client::connect     *)
(* fails) or "stmt_fail" (the connection is made and the statement, if one *)
(* is run, returns an error).                                              *)
(***************************************************************************)
\* a variant of handle_post_request: an id in the body is written to the row
handle_post_request_UsesSuppliedId(request, env, tbl, nv) ==
    LET body == get_user_request_body(request)
    IN  IF body.ok /\ env # "down"
        THEN IF env = "stmt_fail" THEN Panicked(tbl, nv)
             ELSE Returned(OK_RESPONSE, <<T("User created")>>,
                           InsertRow(tbl, IF body.user.hasId THEN body.user.id ELSE nv,
                                     body.user.name, body.user.email),
                           nv + 1)
        ELSE InternalError(tbl, nv)

handle_post_request(request, env, tbl, nv) ==
    LET body == get_user_request_body(request)
    IN  IF body.ok /\ env # "down"
        THEN IF env = "stmt_fail" THEN Panicked(tbl, nv)
             ELSE Returned(OK_RESPONSE, <<T("User created")>>,
                           InsertRow(tbl, nv, body.user.name, body.user.email), nv + 1)
        ELSE InternalError(tbl, nv)

\* a variant of handle_get_request: a failed connection is answered like a
\* failed query
handle_get_request_ConnectErrIsNotFound(request, env, tbl, nv) ==
    LET id == parse_i32(get_id(request))
    IN  IF id.ok
        THEN IF env = "up" /\ id.v \in DOMAIN tbl
             THEN Returned(OK_RESPONSE, <<to_string(RowUser(tbl, id.v))>>, tbl, nv)
             ELSE Returned(NOT_FOUND, <<T("User not found")>>, tbl, nv)
        ELSE InternalError(tbl, nv)

handle_get_request(request, env, tbl, nv) ==
    LET id == parse_i32(get_id(request))
    IN  IF id.ok /\ env # "down"
        THEN IF env = "up" /\ id.v \in DOMAIN tbl
             THEN Returned(OK_RESPONSE, <<to_string(RowUser(tbl, id.v))>>, tbl, nv)
             ELSE Returned(NOT_FOUND, <<T("User not found")>>, tbl, nv)
        ELSE InternalError(tbl, nv)

\* serde_json::to_string(&users) for the rows in the order the store gave
RECURSIVE UsersJson(_, _)
UsersJson(tbl, order) ==
    IF order = <<>> THEN <<>>
    ELSE <<to_string(RowUser(tbl, Head(order)))>>
         \o (IF Len(order) > 1 THEN <<T(",")>> ELSE <<>>)
         \o UsersJson(tbl, Tail(order))

\* a variant of handle_get_all_request: only the first row returned is kept
handle_get_all_request_FirstRowOnly(request, env, order, tbl, nv) ==
    IF env # "down"
    THEN IF env = "stmt_fail" THEN Panicked(tbl, nv)
         ELSE Returned(OK_RESPONSE,
                       <<T("[")>> \o UsersJson(tbl, IF order = <<>> THEN <<>> ELSE <<Head(order)>>) \o <<T("]")>>,
                       tbl, nv)
    ELSE InternalError(tbl, nv)

\* order: the ids of the rows in the order SELECT returns them
handle_get_all_request(request, env, order, tbl, nv) ==
    IF env # "down"
    THEN IF env = "stmt_fail" THEN Panicked(tbl, nv)
         ELSE Returned(OK_RESPONSE, <<T("[")>> \o UsersJson(tbl, order) \o <<T("]")>>,
                       tbl, nv)
    ELSE InternalError(tbl, nv)

handle_put_request(request, env, tbl, nv) ==
    LET id == parse_i32(get_id(request))
        body == get_user_request_body(request)
    IN  IF id.ok /\ body.ok /\ env # "down"
        THEN IF env = "stmt_fail" THEN Panicked(tbl, nv)
             ELSE Returned(OK_RESPONSE, <<T("User updated")>>,
                           UpdateRow(tbl, id.v, body.user.name, body.user.email), nv)
        ELSE InternalError(tbl, nv)

\* a variant of handle_delete_request: the test of rows_affected is inverted
handle_delete_request_InvertedTest(request, env, tbl, nv) ==
    LET id == parse_i32(get_id(request))
    IN  IF id.ok /\ env # "down"
        THEN IF env = "stmt_fail" THEN Panicked(tbl, nv)
             ELSE IF RowsAffected(tbl, id.v) # 0
                  THEN Returned(NOT_FOUND, <<T("User not found")>>, DeleteRow(tbl, id.v), nv)
                  ELSE Returned(OK_RESPONSE, <<T("User deleted")>>, DeleteRow(tbl, id.v), nv)
        ELSE InternalError(tbl, nv)

handle_delete_request(request, env, tbl, nv) ==
    LET id == parse_i32(get_id(request))
    IN  IF id.ok /\ env # "down"
        THEN IF env = "stmt_fail" THEN Panicked(tbl, nv)
             ELSE IF RowsAffected(tbl, id.v) = 0
                  THEN Returned(NOT_FOUND, <<T("User not found")>>, tbl, nv)
                  ELSE Returned(OK_RESPONSE, <<T("User deleted")>>, DeleteRow(tbl, id.v), nv)
        ELSE InternalError(tbl, nv)

(***************************************************************************)
(* The router of handle_client: the first prefix the request text starts   *)
(* with decides the handler.                                               *)
(***************************************************************************)
POST_USERS == <<T("POST"), SP, SLASH, T("users")>>
GET_USERS_SLASH == <<T("GET"), SP, SLASH, T("users"), SLASH>>
GET_USERS == <<T("GET"), SP, SLASH, T("users")>>
PUT_USERS_SLASH == <<T("PUT"), SP, SLASH, T("users"), SLASH>>
DELETE_USERS_SLASH == <<T("DELETE"), SP, SLASH, T("users"), SLASH>>

\* a variant of Route: the GET /users rule is tried before the GET /users/ rule
Route_ReadAllFirst(r) ==
    CASE StartsWith(r, POST_USERS) -> "Create"
      [] StartsWith(r, GET_USERS) -> "ReadAll"
      [] StartsWith(r, PUT_USERS_SLASH) -> "Update"
      [] StartsWith(r, DELETE_USERS_SLASH) -> "Delete"
      [] OTHER -> "Unknown"

Route(r) ==
    CASE StartsWith(r, POST_USERS) -> "Create"
      [] ~StartsWith(r, POST_USERS) /\ StartsWith(r, GET_USERS_SLASH) -> "ReadOne"
      [] ~StartsWith(r, GET_USERS_SLASH) /\ StartsWith(r, GET_USERS) -> "ReadAll"
      [] StartsWith(r, PUT_USERS_SLASH) -> "Update"
      [] StartsWith(r, DELETE_USERS_SLASH) -> "Delete"
      [] OTHER -> "Unknown"

\* a variant of Dispatch: the fallback arm answers like a failed handler
Dispatch_FallbackIsError(r, env, order, tbl, nv) ==
    CASE Route(r) = "Create" -> handle_post_request(r, env, tbl, nv)
      [] Route(r) = "ReadOne" -> handle_get_request(r, env, tbl, nv)
      [] Route(r) = "ReadAll" -> handle_get_all_request(r, env, order, tbl, nv)
      [] Route(r) = "Update" -> handle_put_request(r, env, tbl, nv)
      [] Route(r) = "Delete" -> handle_delete_request(r, env, tbl, nv)
      [] OTHER -> InternalError(tbl, nv)

\* the match of handle_client: the handler's result for request r
Dispatch(r, env, order, tbl, nv) ==
    CASE Route(r) = "Create" -> handle_post_request(r, env, tbl, nv)
      [] Route(r) = "ReadOne" -> handle_get_request(r, env, tbl, nv)
      [] Route(r) = "ReadAll" -> handle_get_all_request(r, env, order, tbl, nv)
      [] Route(r) = "Update" -> handle_put_request(r, env, tbl, nv)
      [] Route(r) = "Delete" -> handle_delete_request(r, env, tbl, nv)
      [] OTHER -> Returned(NOT_FOUND, <<T("404 not found")>>, tbl, nv)

(***************************************************************************)
(* The request texts the clients send.                                     *)
(***************************************************************************)
Line(method, path) == <<T(method), SP>> \o path \o <<SP, T("HTTP"), SLASH, T("1.1")>>

Digit(i) == T(CASE i = 0 -> "0" [] i = 1 -> "1" [] i = 2 -> "2" [] i = 3 -> "3"
                [] i = 4 -> "4" [] i = 5 -> "5" [] i = 6 -> "6" [] i = 7 -> "7"
                [] i = 8 -> "8" [] i = 9 -> "9")

\* the ids the requests name: every id the sequence can assign and one more
RequestIds == 1..(MaxId + 1)

\* /users/{id}, among them ids no i32 holds, non-numeric and empty segments
IdPaths ==
    {<<SLASH, T("users"), SLASH, Digit(i)>> : i \in RequestIds}
    \cup {<<SLASH, T("users"), SLASH, T("abc")>>,
          <<SLASH, T("users"), SLASH>>,
          <<SLASH, T("users"), SLASH, Digit(2), Digit(1), Digit(4), Digit(7), Digit(4),
            Digit(8), Digit(3), Digit(6), Digit(4), Digit(8)>>}

UsersPath == <<SLASH, T("users")>>

Obj(id, name, email) == J([id |-> id, name |-> name, email |-> email])

Ada == Obj(Absent, JStr("Ada"), JStr("ada@x.io"))
Bob == Obj(Absent, JStr("Bob"), JStr("bob@x.io"))
\* a body that carries an id
BobWithId == Obj(JNum(1), JStr("Bob"), JStr("bob@x.io"))
NoEmail == Obj(Absent, JStr("Ada"), Absent)

\* what follows the request line of a request with a body
Bodies ==
    {SEP \o <<Ada>>, SEP \o <<Bob>>, SEP \o <<BobWithId>>, SEP \o <<NoEmail>>,
     \* no blank-line separator at all
     <<>>,
     \* an empty body
     SEP,
     \* two separators
     SEP \o <<T("x")>> \o SEP \o <<Ada>>,
     SEP \o <<Ada>> \o SEP \o <<T("x")>>}

Requests ==
    {Line("POST", p) \o b : p \in {UsersPath, UsersPath \o <<SLASH, Digit(1)>>}, b \in Bodies}
    \cup {Line("PUT", p) \o b : p \in IdPaths, b \in {SEP \o <<Ada>>, SEP \o <<Bob>>,
                                                       SEP \o <<NoEmail>>, <<>>}}
    \cup {Line(m, p) \o SEP : m \in {"GET", "DELETE"}, p \in IdPaths}
    \cup {Line(m, p) \o SEP :
            m \in {"GET", "PUT", "DELETE", "PATCH"},
            p \in {UsersPath, <<SLASH, T("users"), T("abc")>>, <<SLASH, T("unknown")>>}}

\* the orders in which SELECT may return the rows of tbl
Orders(tbl) ==
    {o \in [1..Cardinality(DOMAIN tbl) -> DOMAIN tbl] :
        \A i, j \in DOMAIN o : i # j => o[i] # o[j]}

(***************************************************************************)
(* The state.                                                              *)
(***************************************************************************)
VARIABLES
    pc,        \* where main is: "boot", "bind", "accept", "read", "handle",
               \* "write", or ended: "exited", "panicked"
    table,     \* the rows of users: id -> [name, email]
    nextval,   \* the next value of the id sequence of users
    request,   \* the text read from the connection being served
    rd,        \* how stream.read ended on it: "none", "ok", "err"
    store,     \* what the store did for its handler: "none", "up", "down", "stmt_fail";
               \* "unused" when the router called no handler
    response,  \* the (status line, content) its handler returned
    wr,        \* how write_all ended on it: "none", "ok", "err"
    before,    \* the table as it was when its handler was called
    assigned,  \* history: the ids INSERT has assigned
    created,   \* history: the row of the last Create, until it is updated or deleted
    gone,      \* history: the ids deleted since the last Create
    prev,      \* history: the request before this one, if it was an Update that returned OK
    inflight   \* the connections handle_client was called on and has not returned from

vars == <<pc, table, nextval, request, rd, store, response, wr, before,
          assigned, created, gone, prev, inflight>>

conn == <<request, rd, store, response, wr, before>>
hist == <<assigned, created, gone, prev>>

NoTable == [i \in {} |-> [name |-> "", email |-> ""]]
NoRow == [id |-> 0, name |-> "", email |-> ""]

Init ==
    /\ pc = "boot"
    /\ table = NoTable
    /\ nextval = 1
    /\ request = <<>>
    /\ rd = "none"
    /\ store = "none"
    /\ response = NoResponse
    /\ wr = "none"
    /\ before = NoTable
    /\ assigned = {}
    /\ created = NoRow
    /\ gone = {}
    /\ prev = NoRow
    /\ inflight = 0

\* the values the variables take
TypeOK ==
    /\ pc \in {"boot", "bind", "accept", "read", "handle", "write", "exited", "panicked"}
    /\ DOMAIN table \subseteq 1..(nextval - 1)
    /\ nextval \in 1..(MaxId + 1)
    /\ request \in Requests \cup {<<>>}
    /\ rd \in {"none", "ok", "err"}
    /\ store \in {"none", "unused", "up", "down", "stmt_fail"}
    /\ response.status \in {"none", OK_RESPONSE, NOT_FOUND, INTERNAL_ERROR}
    /\ wr \in {"none", "ok", "err"}
    /\ DOMAIN before \subseteq 1..(nextval - 1)
    /\ assigned \subseteq 1..(nextval - 1)
    /\ created.id \in 0..(nextval - 1)
    /\ gone \subseteq assigned
    /\ prev.id \in 0..I32Max
    /\ inflight \in 0..1

(***************************************************************************)
(* main: set_database, bind, then the accept loop.                         *)
(***************************************************************************)
\* set_database: an error makes main print and return
SetDatabase(ok) ==
    /\ pc = "boot"
    /\ pc' = IF ok THEN "bind" ELSE "exited"
    /\ UNCHANGED <<table, nextval, conn, hist, inflight>>

\* TcpListener::bind(..).unwrap(): an error ends main before the accept loop
Bind(ok) ==
    /\ pc = "bind"
    /\ pc' = IF ok THEN "accept" ELSE "exited"
    /\ UNCHANGED <<table, nextval, conn, hist, inflight>>

\* the request that has just been served, as the history keeps it
Served == rd = "ok" /\ response.status = OK_RESPONSE
ServedId == parse_i32(get_id(request)).v
ServedUser == get_user_request_body(request).user

\* handle_client is called on a new connection; what the connection before it
\* did joins the history
StartConnection ==
    /\ pc' = "read"
    /\ inflight' = inflight + 1
    /\ request' = <<>>
    /\ rd' = "none"
    /\ store' = "none"
    /\ response' = NoResponse
    /\ wr' = "none"
    /\ before' = table
    /\ assigned' = assigned \cup (DOMAIN table \ DOMAIN before)
    /\ created' =
        IF Served /\ Route(request) = "Create"
        THEN [id |-> CHOOSE i \in DOMAIN table : i \notin DOMAIN before,
              name |-> ServedUser.name, email |-> ServedUser.email]
        ELSE IF Served /\ Route(request) \in {"Update", "Delete"} /\ ServedId = created.id
        THEN NoRow
        ELSE created
    /\ gone' =
        IF Served /\ Route(request) = "Create" THEN {}
        ELSE IF Served /\ Route(request) = "Delete" THEN gone \cup {ServedId}
        ELSE gone
    /\ prev' =
        IF Served /\ Route(request) = "Update"
        THEN [id |-> ServedId, name |-> ServedUser.name, email |-> ServedUser.email]
        ELSE NoRow
    /\ UNCHANGED <<table, nextval>>

\* a variant of Accept: the next connection is taken up while the response
\* of this one is still to be written
Accept_WhileServing ==
    /\ pc \in {"accept", "write"}
    /\ StartConnection

\* listener.incoming() yields a connection, once handle_client has returned
\* from the one before: handle_client starts on it
Accept ==
    /\ pc = "accept"
    /\ StartConnection

\* listener.incoming() yields an error: it is printed and the loop goes on
AcceptError ==
    /\ pc = "accept"
    /\ UNCHANGED vars

\* stream.read returns Ok(size) with the text r (size 0: the empty text)
ReadOk(r) ==
    /\ pc = "read"
    /\ Route(r) = "Create" => nextval <= MaxId
    /\ pc' = "handle"
    /\ request' = r
    /\ rd' = "ok"
    /\ UNCHANGED <<table, nextval, store, response, wr, before, hist, inflight>>

\* stream.read returns Err: it is printed and handle_client returns
ReadErr ==
    /\ pc = "read"
    /\ pc' = "accept"
    /\ rd' = "err"
    /\ inflight' = inflight - 1
    /\ UNCHANGED <<table, nextval, request, store, response, wr, before, hist>>

\* the match on the request text and the handler it calls
Handle(env, order) ==
    /\ pc = "handle"
    /\ LET res == Dispatch(request, env, order, table, nextval)
       IN  /\ pc' = IF res.panic THEN "panicked" ELSE "write"
           /\ response' = res.response
           /\ table' = res.table
           /\ nextval' = res.nextval
    /\ store' = IF Route(request) = "Unknown" THEN "unused" ELSE env
    /\ UNCHANGED <<request, rd, wr, before, hist, inflight>>

\* stream.write_all(..).unwrap(): an error panics
Write(ok) ==
    /\ pc = "write"
    /\ pc' = IF ok THEN "accept" ELSE "panicked"
    /\ wr' = IF ok THEN "ok" ELSE "err"
    /\ inflight' = IF ok THEN inflight - 1 ELSE inflight
    /\ UNCHANGED <<table, nextval, request, rd, store, response, before, hist>>

Next ==
    \/ \E ok \in BOOLEAN : SetDatabase(ok)
    \/ \E ok \in BOOLEAN : Bind(ok)
    \/ Accept
    \/ AcceptError
    \/ \E r \in Requests \cup {<<>>} : ReadOk(r)
    \/ ReadErr
    \/ \E env \in {"up", "down", "stmt_fail"}, order \in Orders(table) : Handle(env, order)
    \/ \E ok \in BOOLEAN : Write(ok)

Spec == Init /\ [][Next]_vars

(***************************************************************************)
(* Properties.  While a connection is served, request, store, response and *)
(* before describe it, and the history variables describe the connections  *)
(* served before it.                                                       *)
(***************************************************************************)
\* the identifier the request names, and the User its body decodes to
RequestId == parse_i32(get_id(request))
RequestBody == get_user_request_body(request)

\* the handler of the request has run
Handled == store # "none"

\* C1: with the store reachable, a ReadOne on the identifier assigned to the
\* row of the last Create that returned OK, not updated or deleted since,
\* returns OK with the User of that id and the name and email of the create
\* body.
CreateThenReadOneRoundTrip ==
    (Route(request) = "ReadOne" /\ store = "up" /\ created # NoRow
        /\ RequestId = [ok |-> TRUE, v |-> created.id])
    => response = [status |-> OK_RESPONSE,
                   content |-> <<Obj(JNum(created.id), JStr(created.name),
                                     JStr(created.email))>>]

CreateThenReadOneWitness ==
    /\ Route(request) = "ReadOne" /\ store = "up" /\ created # NoRow
    /\ RequestId = [ok |-> TRUE, v |-> created.id]
    /\ created.name = "Bob" /\ created.email = "bob@x.io"
    /\ response.status = OK_RESPONSE
    /\ wr = "ok"

\* C2: with the store reachable, ReadOne on an identifier no Create has been
\* assigned returns NOT_FOUND, and Delete on it returns NOT_FOUND and
\* removes no row.
NeverCreatedIsNotFound ==
    (RequestId.ok /\ RequestId.v \notin assigned) =>
        /\ (Route(request) = "ReadOne" /\ store \in {"up", "stmt_fail"})
              => response.status = NOT_FOUND
        /\ (Route(request) = "Delete" /\ store = "up")
              => (response.status = NOT_FOUND /\ table = before)

NeverCreatedWitness ==
    /\ Route(request) = "Delete" /\ store = "up"
    /\ RequestId.ok /\ RequestId.v \notin assigned
    /\ assigned # {} /\ before # NoTable
    /\ response.status = NOT_FOUND
    /\ wr = "ok"

\* C3: with the store reachable, Delete on an identifier whose row exists
\* returns OK and removes that row and no other; from then until a later
\* Create, ReadOne and Delete on that identifier return NOT_FOUND.
DeleteIsPhysical ==
    /\ (Route(request) = "Delete" /\ store = "up" /\ RequestId.ok
            /\ RequestId.v \in DOMAIN before)
       => /\ response.status = OK_RESPONSE
          /\ DOMAIN table = DOMAIN before \ {RequestId.v}
          /\ \A i \in DOMAIN table : table[i] = before[i]
    /\ (Route(request) \in {"ReadOne", "Delete"} /\ store = "up" /\ RequestId.ok
            /\ RequestId.v \in gone)
       => (response.status = NOT_FOUND /\ table = before)

DeleteIsPhysicalWitness ==
    /\ Route(request) = "ReadOne" /\ store = "up"
    /\ RequestId.ok /\ RequestId.v \in gone
    /\ table # NoTable
    /\ response.status = NOT_FOUND
    /\ wr = "ok"

\* the method and the path of the request line
Method(r) == IF r = <<>> THEN "" ELSE r[1].c
Path(r) == IF Len(r) >= 2 /\ r[2] = SP THEN FirstWord(SubSeq(r, 3, Len(r))) ELSE <<>>

\* the path is /users
IsUsersPath(p) == p = <<SLASH, T("users")>>
\* the path is /users/{id}: one segment after /users/
IsUserIdPath(p) ==
    /\ StartsWith(p, <<SLASH, T("users"), SLASH>>)
    /\ \A i \in 4..Len(p) : p[i] # SLASH

\* the request has one of the five route shapes
HasRouteShape(r) ==
    \/ Method(r) \in {"POST", "GET"} /\ IsUsersPath(Path(r))
    \/ Method(r) \in {"GET", "PUT", "DELETE"} /\ IsUserIdPath(Path(r))

\* the request text starts with the prefix of one of the router's rules
HasRulePrefix(r) ==
    \E p \in {POST_USERS, GET_USERS_SLASH, GET_USERS, PUT_USERS_SLASH, DELETE_USERS_SLASH} :
        StartsWith(r, p)

\* the answer of the router's fallback arm
Fallback == [status |-> NOT_FOUND, content |-> <<T("404 not found")>>]

\* C4 as claimed: a request that has none of the five route shapes returns
\* NOT_FOUND from the router, no handler called, also when /users is only a
\* textual prefix of its path.
UnshapedRequestIsNotFound ==
    (Handled /\ ~HasRouteShape(request)) => (response = Fallback /\ table = before)

\* C4, amended: a request whose text starts with none of the five rule
\* prefixes is answered NOT_FOUND by the router and no statement is run; a
\* request that starts with one is given to that rule's handler, whatever
\* follows the prefix.
UnroutedRequestIsNotFound ==
    /\ (Handled /\ ~HasRulePrefix(request)) => (response = Fallback /\ table = before)
    /\ (Handled /\ HasRulePrefix(request)) => response # Fallback

UnroutedRequestWitness ==
    /\ Handled /\ ~HasRulePrefix(request)
    /\ Method(request) = "PUT" /\ IsUsersPath(Path(request))
    /\ table # NoTable
    /\ response = Fallback
    /\ wr = "ok"

\* C5 as claimed: when the connection is made and the statement of Create
\* or ReadAll fails, the handler returns INTERNAL_ERROR with a body.
StatementFailureIsInternalError ==
    (store = "stmt_fail"
        /\ (Route(request) = "ReadAll" \/ (Route(request) = "Create" /\ RequestBody.ok)))
    => (response.status = INTERNAL_ERROR /\ response.content # <<>>)

\* C6: when the store cannot be connected to, every request routed to a
\* handler returns INTERNAL_ERROR, whether or not its identifier and body
\* parse, and the table is unchanged.
StoreDownIsInternalError ==
    (store = "down" /\ Route(request) # "Unknown")
    => (response.status = INTERNAL_ERROR /\ table = before)

StoreDownWitness ==
    /\ store = "down" /\ Route(request) = "ReadOne"
    /\ RequestId.ok /\ RequestId.v \in DOMAIN before
    /\ response.status = INTERNAL_ERROR
    /\ wr = "ok"

\* C7 as claimed: when the read returns zero bytes or an error, no response
\* is written to the connection.
NoResponseAfterEmptyRead ==
    (rd = "err" \/ (rd = "ok" /\ request = <<>>)) => wr # "ok"

\* C8 as claimed: a failed write of the response is absorbed and the server
\* loop goes on.
FailedWriteIsAbsorbed ==
    wr = "err" => pc \in {"accept", "read", "handle", "write"}

\* the text has no blank-line separator
NoSeparator(r) == \A i \in 1..(Len(r) - 1) : ~(r[i] = CRLF /\ r[i + 1] = CRLF)
\* the text ends in a JSON object without the email field
BodyLacksEmail(r) ==
    r # <<>> /\ r[Len(r)].c = "json" /\ r[Len(r)].o.email = Absent

UpdateIsIdempotent ==
    (Route(request) = "Update" /\ store = "up" /\ RequestId.ok /\ RequestBody.ok
        /\ RequestId.v \in DOMAIN before)
    => /\ response.status = OK_RESPONSE
       /\ prev = [id |-> RequestId.v, name |-> RequestBody.user.name,
                  email |-> RequestBody.user.email]
          => table = before

UpdateTwiceWitness ==
    /\ Route(request) = "Update" /\ store = "up" /\ RequestId.ok /\ RequestBody.ok
    /\ RequestId.v \in DOMAIN before
    /\ prev = [id |-> RequestId.v, name |-> RequestBody.user.name,
               email |-> RequestBody.user.email]
    /\ response.status = OK_RESPONSE
    /\ table = before
    /\ created # NoRow /\ created.id # prev.id
    /\ wr = "ok"

\* the positions of the JSON objects in a response content
Objects(c) == {i \in 1..Len(c) : c[i].c = "json"}

\* C11: with the store reachable, ReadAll returns OK with a sequence that
\* holds exactly one User per row of the table: as many Users as rows, and
\* the id, name and email of every row once, in whatever order the rows
\* were inserted and are returned.
ReadAllReturnsEveryRow ==
    (Route(request) = "ReadAll" /\ store = "up")
    => LET c == response.content
       IN  /\ response.status = OK_RESPONSE
           /\ Len(c) >= 2 /\ c[1] = T("[") /\ c[Len(c)] = T("]")
           /\ Cardinality(Objects(c)) = Cardinality(DOMAIN table)
           /\ \A id \in DOMAIN table :
                Cardinality({i \in Objects(c) :
                    c[i] = Obj(JNum(id), JStr(table[id].name), JStr(table[id].email))}) = 1

ReadAllWitness ==
    /\ Route(request) = "ReadAll" /\ store = "up"
    /\ Cardinality(DOMAIN table) = 2
    /\ response.status = OK_RESPONSE
    /\ response.content[2].o.id = JNum(2)
    /\ prev # NoRow
    /\ wr = "ok"

\* the connection last accepted has been read, and if a request was read
\* its handler has run and its response has been written
ConnectionComplete == rd = "err" \/ (rd = "ok" /\ Handled /\ wr = "ok")

\* C12: requests are handled one at a time in arrival order: at most one
\* connection is in flight, and a connection is accepted only when the read,
\* the store operation and the response write of the one before it are
\* complete.
OneRequestAtATime ==
    /\ inflight \in {0, 1}
    /\ (pc \in {"read", "handle", "write"}) => (inflight = 1 /\ ~ConnectionComplete)
    /\ (pc = "accept" /\ rd # "none") => (inflight = 0 /\ ConnectionComplete)
    /\ (pc = "accept" /\ rd = "none") => (inflight = 0 /\ before = NoTable /\ table = NoTable)

OneRequestAtATimeWitness ==
    /\ pc = "handle" /\ inflight = 1
    /\ Route(request) = "Update"
    /\ assigned # {} /\ gone # {}
    /\ table # NoTable

\* the text after the first blank-line separator of r, empty when r has none
RECURSIVE AfterFirstSeparator(_)
AfterFirstSeparator(r) ==
    IF Len(r) < 2 THEN <<>>
    ELSE IF r[1] = CRLF /\ r[2] = CRLF THEN SubSeq(r, 3, Len(r))
    ELSE AfterFirstSeparator(Tail(r))

\* C13 as claimed: the body Create and Update decode is the text after the
\* FIRST blank-line separator of the request, and the empty text when the
\* request has no separator.
BodyFollowsFirstSeparator ==
    (Handled /\ Route(request) \in {"Create", "Update"})
    => LastPiece(request) = AfterFirstSeparator(request)

\* C13 as claimed, seen from the client: with the store reachable a Create
\* returns OK exactly when the text after the first separator is a User.
CreateDecodesTextAfterFirstSeparator ==
    (Route(request) = "Create" /\ store = "up")
    => (response.status = OK_RESPONSE <=> from_str(AfterFirstSeparator(request)).ok)

\* the path starts with /users/, and the identifier segment that follows
HasIdPrefix(r) == StartsWith(Path(r), <<SLASH, T("users"), SLASH>>)
IdSegment(r) == SubSeq(Path(r), 4, Len(Path(r)))

\* C14: a GET, PUT or DELETE on a path that starts with /users/ whose
\* identifier segment is no 32-bit signed integer (empty, not a number, out
\* of range) returns INTERNAL_ERROR, not NOT_FOUND, whatever the store does,
\* and runs no statement on the table; GET /users/ goes to ReadOne, not to
\* ReadAll.
UnparsableIdIsInternalError ==
    (Handled /\ Method(request) \in {"GET", "PUT", "DELETE"} /\ HasIdPrefix(request)
        /\ ~parse_i32(IdSegment(request)).ok)
    => /\ response = [status |-> INTERNAL_ERROR, content |-> <<T("Internal error")>>]
       /\ table = before
       /\ pc # "panicked" \/ wr = "err"

UnparsableIdWitness ==
    /\ store = "up" /\ Method(request) = "GET" /\ HasIdPrefix(request)
    /\ IdSegment(request) = <<>>
    /\ table # NoTable
    /\ response.status = INTERNAL_ERROR
    /\ wr = "ok"

\* C15: with the store reachable, an Update that names an identifier and
\* carries a User returns OK; the row with that id gets the name and email
\* of the body, every other row is unchanged, no row is added or removed;
\* when no row has the id the table is unchanged and the response is OK all
\* the same.
UpdateChangesOnlyItsRow ==
    (Route(request) = "Update" /\ store = "up" /\ RequestId.ok /\ RequestBody.ok)
    => /\ response.status = OK_RESPONSE
       /\ DOMAIN table = DOMAIN before
       /\ \A i \in DOMAIN before : i # RequestId.v => table[i] = before[i]
       /\ RequestId.v \in DOMAIN before
            => table[RequestId.v] = [name |-> RequestBody.user.name,
                                     email |-> RequestBody.user.email]
       /\ RequestId.v \notin DOMAIN before => table = before

UpdateOfOneRowWitness ==
    /\ Route(request) = "Update" /\ store = "up" /\ RequestId.ok /\ RequestBody.ok
    /\ Cardinality(DOMAIN before) = 2
    /\ RequestId.v \in DOMAIN before
    /\ table # before
    /\ response.status = OK_RESPONSE
    /\ wr = "ok"

UpdateOfNoRowWitness ==
    /\ Route(request) = "Update" /\ store = "up" /\ RequestId.ok /\ RequestBody.ok
    /\ before # NoTable
    /\ RequestId.v \notin DOMAIN before
    /\ table = before
    /\ response.status = OK_RESPONSE
    /\ wr = "ok"

\* C16: row ids come from the store alone: every row has an id the store's
\* sequence assigned, and with the store reachable a Create adds exactly one
\* row, under the next value of the sequence, an id no row has or had, also
\* when the body carries an id; the rows already there, the one with the
\* supplied id among them, are unchanged.
IdsAreAssignedByTheStore ==
    /\ DOMAIN before \subseteq assigned
    /\ (Route(request) = "Create" /\ store = "up" /\ RequestBody.ok)
       => LET new == DOMAIN table \ DOMAIN before
          IN  /\ response.status = OK_RESPONSE
              /\ Cardinality(DOMAIN table) = Cardinality(DOMAIN before) + 1
              /\ new = {nextval - 1}
              /\ new \cap assigned = {}
              /\ \A i \in new : table[i] = [name |-> RequestBody.user.name,
                                            email |-> RequestBody.user.email]
              /\ \A i \in DOMAIN before : table[i] = before[i]

CreateWithSuppliedIdWitness ==
    /\ Route(request) = "Create" /\ store = "up" /\ RequestBody.ok
    /\ RequestBody.user.hasId
    /\ RequestBody.user.id \in DOMAIN before
    /\ before[RequestBody.user.id].name = "Ada"
    /\ table[RequestBody.user.id] = before[RequestBody.user.id]
    /\ DOMAIN table \ DOMAIN before = {2}
    /\ response.status = OK_RESPONSE
    /\ wr = "ok"

\* C17: a request answered NOT_FOUND or INTERNAL_ERROR, and a ReadOne or
\* ReadAll whatever its answer, leaves the table as it was; the table
\* changes only by a Create, Update or Delete that answers OK.
OnlyOkWritesChangeTheTable ==
    /\ (Handled /\ (response.status \in {NOT_FOUND, INTERNAL_ERROR}
                    \/ Route(request) \in {"ReadOne", "ReadAll"}))
       => table = before
    /\ table # before
       => (Route(request) \in {"Create", "Update", "Delete"}
           /\ response.status = OK_RESPONSE)

FailedUpdateWitness ==
    /\ Route(request) = "Update" /\ store = "up"
    /\ RequestId.ok /\ RequestId.v \in DOMAIN before
    /\ ~RequestBody.ok
    /\ response.status = INTERNAL_ERROR
    /\ table = before
    /\ wr = "ok"

====
